---- MODULE Spec2Model ----
(***************************************************************************)
(* Model of the statistics database controller of nucleoid-backend         *)
(* (src/src/statistics/database.rs): the four message handlers of           *)
(* StatisticDatabaseController over the collections "players",              *)
(* "player-stats", "global-stats" and "corrupt_stats".                      *)
(*                                                                         *)
(* A handler runs to completion before the next message is taken (xtra      *)
(* delivers one message at a time to the actor), so every handler is one    *)
(* action.  Inside a handler the store round trips are numbered 1, 2, ...   *)
(* in the order the code issues them; the input `fails` names the round     *)
(* trips that return an error.                                              *)
(***************************************************************************)
EXTENDS Integers, Sequences, FiniteSets, TLC

(***************************************************************************)
(* Bounds and input sets                                                   *)
(***************************************************************************)
MaxSteps == 3         \* messages handled (and schema drifts) in one run
MaxOps == 13          \* store round trips of one handler that may be made to fail

Players == {"A", "B"}
Names == {"Alice", "Bob"}
Namespaces == {"lobby"}
Stats == {"wins", "kills"}
Deltas == {1, 2}

NoName == "<none>"    \* Option<String>::None of PlayerProfile.username
NoId == 0             \* a document without an _id field
GlobalKey == "<global>"

None == [some |-> FALSE]
Some(x) == [some |-> TRUE, val |-> x]

(***************************************************************************)
(* State: the four collections, the notification sink, the driver's id      *)
(* source, the actor's liveness, and a record of the last handled message.  *)
(***************************************************************************)
VARIABLES
    profiles,     \* collection "players": set of [uuid, username]
    pstats,       \* collection "player-stats": set of documents
    gstats,       \* collection "global-stats": set of documents
    corrupt,      \* collection "corrupt_stats": set of documents
    reports,      \* BackendError messages delivered to the controller
    nextId,       \* next _id the driver generates
    alive,        \* the actor is running (a handler panic stops it)
    last,         \* the last handled message: input, result, operations issued
    clean,        \* no store failure and no unreadable document so far
    uploaded,     \* while clean: sum of the deltas uploaded per (key, namespace, stat)
    steps         \* messages handled and schema drifts so far

vars == <<profiles, pstats, gstats, corrupt, reports, nextId, alive, last,
          clean, uploaded, steps>>

(***************************************************************************)
(* Execution context threaded through one handler.                         *)
(***************************************************************************)
Ctx(f) ==
    [profiles |-> profiles, pstats |-> pstats, gstats |-> gstats,
     corrupt |-> corrupt, reports |-> reports, nextId |-> nextId,
     fails |-> f, opc |-> 0, st |-> "ok", log |-> << >>]

\* one store round trip is issued
Step(c) == [c EXCEPT !.opc = @ + 1]
\* the round trip just issued returned an error
Failed(c) == c.opc \in c.fails
\* `?` : the error is returned to the caller
Err(c) == [c EXCEPT !.st = "err"]
\* .expect(..) on an Err: the handler panics
Panic(c) == [c EXCEPT !.st = "panic"]

\* an operation the handler issued: kind, key, name, document id, extra
Ev(e, k, s, id, x) == [e |-> e, k |-> k, s |-> s, id |-> id, x |-> x]
Log(c, ev) == [c EXCEPT !.log = Append(@, ev)]

\* let x = v in F(x), with v evaluated once
Bind(v, F(_)) == CHOOSE r \in {F(x) : x \in {v}} : TRUE

(***************************************************************************)
(* Profile store                                                           *)
(***************************************************************************)
\* find(..limit 1) + try_next: the first matching profile, if any
FirstProfile(coll, uuid) ==
    IF \E p \in coll : p.uuid = uuid
    THEN Some(CHOOSE p \in coll : p.uuid = uuid)
    ELSE None

get_player_profile(c, uuid) ==
    Bind(Step(c), LAMBDA c1 :
        IF Failed(c1) THEN [c |-> Err(c1), res |-> None]
        ELSE [c |-> c1, res |-> FirstProfile(c1.profiles, uuid)])

\* update_one({"uuid": uuid}, {"$set": {"username": username}})
SetUsername(coll, uuid, username) ==
    IF \E p \in coll : p.uuid = uuid
    THEN LET p == CHOOSE q \in coll : q.uuid = uuid
         IN (coll \ {p}) \cup {[p EXCEPT !.username = username]}
    ELSE coll

\* a comparison that issues update_one for every supplied name
NameChanged_always(username, profile) == username # NoName

\* the name comparison that decides whether update_one is issued
NameChanged(username, profile) ==
    /\ username # NoName
    /\ profile.username # NoName
    /\ username # profile.username

update_player_profile(c, uuid, username) ==
    Bind(get_player_profile(c, uuid), LAMBDA g :
        IF g.c.st # "ok" THEN [c |-> g.c, res |-> None]
        ELSE IF g.res.some
        THEN IF NameChanged(username, g.res.val)
             THEN Bind(Step(g.c), LAMBDA c1 :
                      IF Failed(c1) THEN [c |-> Err(c1), res |-> None]
                      ELSE [c |-> Log([c1 EXCEPT !.profiles =
                                          SetUsername(@, uuid, username)],
                                      Ev("pupdate", uuid, username, NoId, 0)),
                            res |-> Some([g.res.val EXCEPT !.username = username])])
             ELSE [c |-> g.c, res |-> g.res]
        ELSE Bind(Step(g.c), LAMBDA c1 :
                 IF Failed(c1) THEN [c |-> Err(c1), res |-> None]
                 ELSE [c |-> Log([c1 EXCEPT !.profiles =
                                     @ \cup {[uuid |-> uuid, username |-> username]}],
                                 Ev("pinsert", uuid, username, NoId, 0)),
                       res |-> Some([uuid |-> uuid, username |-> username])]))

(***************************************************************************)
(* Counter stores                                                          *)
(***************************************************************************)
EmptyStats == [s \in {} |-> 0]

\* documents of "player-stats" matching {"uuid": uuid, "namespace": namespace}
PMatch(coll, uuid, namespace) ==
    {d \in coll : d.uuid = uuid /\ d.namespace = namespace}

\* documents of "global-stats" matching {"namespace": namespace}
GMatch(coll, namespace) == {d \in coll : d.namespace = namespace}

\* the first document of a result set (find with limit 1, find_one)
First(docs) == IF docs = {} THEN None ELSE Some(CHOOSE d \in docs : TRUE)

\* insert_one: the driver generates an _id for a document that has none; an _id
\* already present in the collection is a duplicate-key error
insert_one(coll, doc, next) ==
    Bind(IF doc._id = NoId THEN next ELSE doc._id, LAMBDA id :
        IF \E d \in coll : d._id = id
        THEN [ok |-> FALSE, coll |-> coll, id |-> id, next |-> next]
        ELSE [ok |-> TRUE, coll |-> coll \cup {[doc EXCEPT !._id = id]}, id |-> id,
              next |-> IF doc._id = NoId THEN next + 1 ELSE next])

\* delete_one({"_id": id})
delete_one(coll, id) ==
    IF \E d \in coll : d._id = id
    THEN coll \ {CHOOSE d \in coll : d._id = id}
    ELSE coll

\* {"$inc": {"stats.<name>": delta}} applied to a stats mapping
Inc(stats, name, delta) ==
    [s \in (DOMAIN stats) \cup {name} |->
        IF s = name
        THEN (IF name \in DOMAIN stats THEN stats[name] ELSE 0) + delta
        ELSE stats[s]]

\* update_one(filter, {"$inc": ..}): the first matching document is updated;
\* no matching document is not an error
update_one(coll, docs, name, delta) ==
    IF docs = {} THEN coll
    ELSE Bind(CHOOSE x \in docs : TRUE, LAMBDA d :
             (coll \ {d}) \cup {[d EXCEPT !.stats = Inc(@, name, delta)]})

(***************************************************************************)
(* Corruption repair                                                       *)
(***************************************************************************)
\* the document handed to corrupt_stats().insert_one: `document` itself
\* (corrupt_document, the clone without _id, is built and not used)
Backup(document, corrupt_document) == document

\* a repair that goes on when the insert into corrupt_stats returned an error
handle_broken_document_lost(c, document, namespace, global) ==
    Bind([c1 |-> Step(c),
          corrupt_document |-> [document EXCEPT !._id = NoId],
          key |-> IF global THEN GlobalKey ELSE document.uuid], LAMBDA v :
    Bind(insert_one(v.c1.corrupt, Backup(document, v.corrupt_document), v.c1.nextId),
         LAMBDA ins :
    Bind(IF Failed(v.c1) \/ ~ins.ok THEN v.c1
         ELSE [v.c1 EXCEPT !.corrupt = ins.coll, !.nextId = ins.next], LAMBDA c2 :
    Bind(Step(Log(c2, Ev("quarantine", v.key, namespace, ins.id, document._id))),
         LAMBDA c3 :
        IF Failed(c3) THEN Panic(c3)
        ELSE Log([c3 EXCEPT !.reports = Append(@,
                     [namespace |-> namespace, global |-> global,
                      backup |-> ins.id])],
                 Ev("report", v.key, namespace, ins.id, 0))))))

handle_broken_document(c, document, namespace, global) ==
    Bind([c1 |-> Step(c),
          corrupt_document |-> [document EXCEPT !._id = NoId],
          key |-> IF global THEN GlobalKey ELSE document.uuid], LAMBDA v :
    Bind(insert_one(v.c1.corrupt, Backup(document, v.corrupt_document), v.c1.nextId),
         LAMBDA ins :
        IF Failed(v.c1) \/ ~ins.ok THEN Err(v.c1)
        ELSE Bind(Step(Log([v.c1 EXCEPT !.corrupt = ins.coll, !.nextId = ins.next],
                           Ev("quarantine", v.key, namespace, ins.id, document._id))),
                  LAMBDA c3 :
                 IF Failed(c3) THEN Panic(c3)
                 ELSE Log([c3 EXCEPT !.reports = Append(@,
                              [namespace |-> namespace, global |-> global,
                               backup |-> ins.id])],
                          Ev("report", v.key, namespace, ins.id, 0)))))

\* variant: the original document is not deleted after the backup
handle_broken_player_stats_document_keep(c, uuid, namespace) ==
    Bind(Step(c), LAMBDA c1 :
    Bind(First(PMatch(c1.pstats, uuid, namespace)), LAMBDA doc :
        IF Failed(c1) THEN Err(c1)
        ELSE IF doc.some
        THEN Bind(handle_broken_document(c1, doc.val, namespace, FALSE), LAMBDA c2 :
                 IF c2.st # "ok" THEN c2
                 ELSE Bind(Step(c2), LAMBDA c3 :
                          IF Failed(c3) THEN Err(c3)
                          ELSE Log(c3, Ev("delete", uuid, namespace, doc.val._id, 0))))
        ELSE Log(c1, Ev("missing", uuid, namespace, NoId, 0))))

\* variant: a missing original document is an error
handle_broken_player_stats_document_strict(c, uuid, namespace) ==
    Bind(Step(c), LAMBDA c1 :
    Bind(First(PMatch(c1.pstats, uuid, namespace)), LAMBDA doc :
        IF Failed(c1) THEN Err(c1)
        ELSE IF doc.some
        THEN Bind(handle_broken_document(c1, doc.val, namespace, FALSE), LAMBDA c2 :
                 IF c2.st # "ok" THEN c2
                 ELSE Bind(Step(c2), LAMBDA c3 :
                          IF Failed(c3) THEN Err(c3)
                          ELSE Log([c3 EXCEPT !.pstats = delete_one(@, doc.val._id)],
                                   Ev("delete", uuid, namespace, doc.val._id, 0))))
        ELSE Err(Log(c1, Ev("missing", uuid, namespace, NoId, 0)))))

handle_broken_player_stats_document(c, uuid, namespace) ==
    Bind(Step(c), LAMBDA c1 :
    Bind(First(PMatch(c1.pstats, uuid, namespace)), LAMBDA doc :
        IF Failed(c1) THEN Err(c1)
        ELSE IF doc.some
        THEN Bind(handle_broken_document(c1, doc.val, namespace, FALSE), LAMBDA c2 :
                 IF c2.st # "ok" THEN c2
                 ELSE Bind(Step(c2), LAMBDA c3 :
                          IF Failed(c3) THEN Err(c3)
                          ELSE Log([c3 EXCEPT !.pstats = delete_one(@, doc.val._id)],
                                   Ev("delete", uuid, namespace, doc.val._id, 0))))
        ELSE Log(c1, Ev("missing", uuid, namespace, NoId, 0))))

handle_broken_global_stats_document(c, namespace) ==
    Bind(Step(c), LAMBDA c1 :
    Bind(First(GMatch(c1.gstats, namespace)), LAMBDA doc :
        IF Failed(c1) THEN Err(c1)
        ELSE IF doc.some
        THEN Bind(handle_broken_document(c1, doc.val, namespace, TRUE), LAMBDA c2 :
                 IF c2.st # "ok" THEN c2
                 ELSE Bind(Step(c2), LAMBDA c3 :
                          IF Failed(c3) THEN Err(c3)
                          ELSE Log([c3 EXCEPT !.gstats = delete_one(@, doc.val._id)],
                                   Ev("delete", GlobalKey, namespace, doc.val._id, 0))))
        ELSE Log(c1, Ev("missing", GlobalKey, namespace, NoId, 0))))

(***************************************************************************)
(* ensure_*_stats_document                                                 *)
(***************************************************************************)
\* res.try_next(): Ok(None), Ok(Some(stats)), or Err when the round trip fails
\* or the document does not deserialize into the typed struct
TryNext(c, docs) ==
    IF Failed(c) THEN "err"
    ELSE IF docs = {} THEN "none"
    ELSE IF First(docs).val.readable THEN "some" ELSE "err"

\* if needs_new_document { insert_one(PlayerGameStats {.., stats: HashMap::new()}) }
insert_player_stats(c, uuid, namespace) ==
    Bind(Step(c), LAMBDA c4 :
    Bind(insert_one(c4.pstats,
                    [_id |-> NoId, uuid |-> uuid, namespace |-> namespace,
                     stats |-> EmptyStats, readable |-> TRUE],
                    c4.nextId), LAMBDA ins :
        IF Failed(c4) \/ ~ins.ok THEN Err(c4)
        ELSE Log([c4 EXCEPT !.pstats = ins.coll, !.nextId = ins.next],
                 Ev("insert", uuid, namespace, ins.id, 0))))

\* an ensure that does not upsert the profile first
ensure_player_stats_document_noupsert(c, uuid, namespace) ==
    Bind(Step(c), LAMBDA c1 :
        IF Failed(c1) THEN Err(c1)
        ELSE Bind(Step(c1), LAMBDA c2 :
        Bind(TryNext(c2, PMatch(c2.pstats, uuid, namespace)), LAMBDA stats :
        Bind(IF stats = "err"
             THEN handle_broken_player_stats_document(c2, uuid, namespace)
             ELSE c2, LAMBDA c3 :
            IF c3.st # "ok" THEN c3
            ELSE IF stats = "some"
            THEN Log(c3, Ev("ensured", uuid, namespace, NoId, 0))
            ELSE Bind(insert_player_stats(c3, uuid, namespace), LAMBDA c4 :
                     IF c4.st # "ok" THEN c4
                     ELSE Log(c4, Ev("ensured", uuid, namespace, NoId, 0)))))))

ensure_player_stats_document(c, uuid, namespace) ==
    Bind(update_player_profile(c, uuid, NoName).c, LAMBDA u :
        IF u.st # "ok" THEN u
        ELSE Bind(Step(u), LAMBDA c1 :                     \* find
        IF Failed(c1) THEN Err(c1)
        ELSE Bind(Step(c1), LAMBDA c2 :                    \* try_next
        Bind(TryNext(c2, PMatch(c2.pstats, uuid, namespace)), LAMBDA stats :
        Bind(IF stats = "err"
             THEN handle_broken_player_stats_document(c2, uuid, namespace)
             ELSE c2, LAMBDA c3 :
            IF c3.st # "ok" THEN c3
            ELSE IF stats = "some"
            THEN Log(c3, Ev("ensured", uuid, namespace, NoId, 0))
            ELSE Bind(insert_player_stats(c3, uuid, namespace), LAMBDA c4 :
                     IF c4.st # "ok" THEN c4
                     ELSE Log(c4, Ev("ensured", uuid, namespace, NoId, 0))))))))

\* if needs_new_document { insert_one(GlobalGameStats {.., stats: HashMap::new()}) }
insert_global_stats(c, namespace) ==
    Bind(Step(c), LAMBDA c4 :
    Bind(insert_one(c4.gstats,
                    [_id |-> NoId, namespace |-> namespace,
                     stats |-> EmptyStats, readable |-> TRUE],
                    c4.nextId), LAMBDA ins :
        IF Failed(c4) \/ ~ins.ok THEN Err(c4)
        ELSE Log([c4 EXCEPT !.gstats = ins.coll, !.nextId = ins.next],
                 Ev("insert", GlobalKey, namespace, ins.id, 0))))

\* an ensure that inserts a fresh document whatever the cursor returned
ensure_global_stats_document_always(c, namespace) ==
    Bind(Step(c), LAMBDA c1 :
        IF Failed(c1) THEN Err(c1)
        ELSE Bind(Step(c1), LAMBDA c2 :
        Bind(TryNext(c2, GMatch(c2.gstats, namespace)), LAMBDA stats :
        Bind(IF stats = "err"
             THEN handle_broken_global_stats_document(c2, namespace)
             ELSE c2, LAMBDA c3 :
            IF c3.st # "ok" THEN c3
            ELSE Bind(insert_global_stats(c3, namespace), LAMBDA c4 :
                     IF c4.st # "ok" THEN c4
                     ELSE Log(c4, Ev("ensured", GlobalKey, namespace, NoId, 0)))))))

ensure_global_stats_document(c, namespace) ==
    Bind(Step(c), LAMBDA c1 :                              \* find
        IF Failed(c1) THEN Err(c1)
        ELSE Bind(Step(c1), LAMBDA c2 :                    \* try_next
        Bind(TryNext(c2, GMatch(c2.gstats, namespace)), LAMBDA stats :
        Bind(IF stats = "err"
             THEN handle_broken_global_stats_document(c2, namespace)
             ELSE c2, LAMBDA c3 :
            IF c3.st # "ok" THEN c3
            ELSE IF stats = "some"
            THEN Log(c3, Ev("ensured", GlobalKey, namespace, NoId, 0))
            ELSE Bind(insert_global_stats(c3, namespace), LAMBDA c4 :
                     IF c4.st # "ok" THEN c4
                     ELSE Log(c4, Ev("ensured", GlobalKey, namespace, NoId, 0)))))))

(***************************************************************************)
(* upload_stats_bundle                                                     *)
(***************************************************************************)
\* stat.create_increment_operation(&stat_name): {"$inc": {"stats.<name>": delta}}
create_increment_operation(stat, stat_name) == [name |-> stat_name, delta |-> stat]

\* an inner loop that returns after the first update_one
RECURSIVE player_increments_first(_, _, _, _, _, _)
player_increments_first(c, player, namespace, stats, statOrder, i) ==
    IF i > Len(statOrder) THEN c
    ELSE IF statOrder[i] \notin DOMAIN stats
    THEN player_increments_first(c, player, namespace, stats, statOrder, i + 1)
    ELSE Bind(create_increment_operation(stats[statOrder[i]], statOrder[i]), LAMBDA op :
         Bind(Step(c), LAMBDA c1 :
            IF Failed(c1) THEN Err(c1)
            ELSE Log([c1 EXCEPT !.pstats =
                         update_one(@, PMatch(@, player, namespace),
                                    op.name, op.delta)],
                     Ev("inc", player, op.name, NoId, op.delta))))

\* the inner loops: one update_one per (stat_name, stat), in iteration order
RECURSIVE player_increments(_, _, _, _, _, _)
player_increments(c, player, namespace, stats, statOrder, i) ==
    IF i > Len(statOrder) THEN c
    ELSE IF statOrder[i] \notin DOMAIN stats
    THEN player_increments(c, player, namespace, stats, statOrder, i + 1)
    ELSE Bind(create_increment_operation(stats[statOrder[i]], statOrder[i]), LAMBDA op :
         Bind(Step(c), LAMBDA c1 :
            IF Failed(c1) THEN Err(c1)
            ELSE Bind(Log([c1 EXCEPT !.pstats =
                              update_one(@, PMatch(@, player, namespace),
                                         op.name, op.delta)],
                          Ev("inc", player, op.name, NoId, op.delta)), LAMBDA c2 :
                     player_increments(c2, player, namespace, stats, statOrder, i + 1))))

RECURSIVE global_increments(_, _, _, _, _)
global_increments(c, namespace, stats, statOrder, i) ==
    IF i > Len(statOrder) THEN c
    ELSE IF statOrder[i] \notin DOMAIN stats
    THEN global_increments(c, namespace, stats, statOrder, i + 1)
    ELSE Bind(create_increment_operation(stats[statOrder[i]], statOrder[i]), LAMBDA op :
         Bind(Step(c), LAMBDA c1 :
            IF Failed(c1) THEN Err(c1)
            ELSE Bind(Log([c1 EXCEPT !.gstats =
                              update_one(@, GMatch(@, namespace), op.name, op.delta)],
                          Ev("inc", GlobalKey, op.name, NoId, op.delta)), LAMBDA c2 :
                     global_increments(c2, namespace, stats, statOrder, i + 1))))

\* a loop that issues the increments whatever the ensure returned
RECURSIVE upload_players_unchecked(_, _, _, _, _)
upload_players_unchecked(c, bundle, order, statOrder, i) ==
    IF i > Len(order) THEN c
    ELSE Bind(ensure_player_stats_document(
                  Log(c, Ev("begin", order[i], bundle.namespace, NoId, 0)),
                  order[i], bundle.namespace), LAMBDA c1 :
            Bind(player_increments([c1 EXCEPT !.st = "ok"], order[i], bundle.namespace,
                                   bundle.players[order[i]], statOrder, 1),
                 LAMBDA c2 :
                IF c2.st # "ok" THEN c2
                ELSE upload_players_unchecked(c2, bundle, order, statOrder, i + 1)))

\* the loop over bundle.stats.players, in iteration order `order`
RECURSIVE upload_players(_, _, _, _, _)
upload_players(c, bundle, order, statOrder, i) ==
    IF i > Len(order) THEN c
    ELSE Bind(ensure_player_stats_document(
                  Log(c, Ev("begin", order[i], bundle.namespace, NoId, 0)),
                  order[i], bundle.namespace), LAMBDA c1 :
            IF c1.st # "ok" THEN c1
            ELSE Bind(player_increments(c1, order[i], bundle.namespace,
                                        bundle.players[order[i]], statOrder, 1),
                      LAMBDA c2 :
                     IF c2.st # "ok" THEN c2
                     ELSE upload_players(c2, bundle, order, statOrder, i + 1)))

\* an upload that restores the counter collections when a player fails
upload_stats_bundle_rollback(c, bundle, order, statOrder) ==
    Bind(upload_players(c, bundle, order, statOrder, 1), LAMBDA c1 :
        IF c1.st # "ok" THEN [c1 EXCEPT !.pstats = c.pstats, !.gstats = c.gstats]
        ELSE IF ~bundle.global.some THEN c1
        ELSE Bind(ensure_global_stats_document(
                      Log(c1, Ev("begin", GlobalKey, bundle.namespace, NoId, 0)),
                      bundle.namespace), LAMBDA c2 :
                 IF c2.st # "ok" THEN c2
                 ELSE global_increments(c2, bundle.namespace, bundle.global.val,
                                        statOrder, 1)))

upload_stats_bundle(c, bundle, order, statOrder) ==
    Bind(upload_players(c, bundle, order, statOrder, 1), LAMBDA c1 :
        IF c1.st # "ok" THEN c1
        ELSE IF ~bundle.global.some THEN c1
        ELSE Bind(ensure_global_stats_document(
                      Log(c1, Ev("begin", GlobalKey, bundle.namespace, NoId, 0)),
                      bundle.namespace), LAMBDA c2 :
                 IF c2.st # "ok" THEN c2
                 ELSE global_increments(c2, bundle.namespace, bundle.global.val,
                                        statOrder, 1)))

(***************************************************************************)
(* get_player_stats                                                        *)
(***************************************************************************)
\* stat.into(): the stored number widened to f64
ToF64(stat) == stat

\* the fold of the cursor's documents into namespace -> name -> f64
FinalStats(docs) ==
    [ns \in {d.namespace : d \in docs} |->
        LET d == CHOOSE x \in docs : x.namespace = ns
        IN [name \in DOMAIN d.stats |-> ToF64(d.stats[name])]]

\* a read that does not look at the result of the profile lookup
get_player_stats_unchecked(c, uuid, namespace) ==
    Bind(get_player_profile(c, uuid), LAMBDA g :
        IF g.c.st # "ok" THEN [c |-> g.c, res |-> None]
        ELSE Bind(Step(g.c), LAMBDA c1 :
        IF Failed(c1) THEN [c |-> Err(c1), res |-> None]
        ELSE Bind(Step(c1), LAMBDA c2 :
        Bind(IF namespace.some
             THEN PMatch(c2.pstats, uuid, namespace.val)
             ELSE {d \in c2.pstats : d.uuid = uuid}, LAMBDA docs :
            IF Failed(c2) \/ \E d \in docs : ~d.readable
            THEN [c |-> Err(c2), res |-> None]
            ELSE [c |-> c2, res |-> Some(FinalStats(docs))]))))

\* a read that upserts the profile as ensure_player_stats_document does
get_player_stats_upsert(c, uuid, namespace) ==
    Bind(update_player_profile(c, uuid, NoName), LAMBDA g :
        IF g.c.st # "ok" THEN [c |-> g.c, res |-> None]
        ELSE IF ~g.res.some THEN [c |-> g.c, res |-> None]
        ELSE Bind(Step(g.c), LAMBDA c1 :
        IF Failed(c1) THEN [c |-> Err(c1), res |-> None]
        ELSE Bind(Step(c1), LAMBDA c2 :
        Bind(IF namespace.some
             THEN PMatch(c2.pstats, uuid, namespace.val)
             ELSE {d \in c2.pstats : d.uuid = uuid}, LAMBDA docs :
            IF Failed(c2) \/ \E d \in docs : ~d.readable
            THEN [c |-> Err(c2), res |-> None]
            ELSE [c |-> c2, res |-> Some(FinalStats(docs))]))))

get_player_stats(c, uuid, namespace) ==
    Bind(get_player_profile(c, uuid), LAMBDA g :
        IF g.c.st # "ok" THEN [c |-> g.c, res |-> None]
        ELSE IF ~g.res.some THEN [c |-> g.c, res |-> None]
        ELSE Bind(Step(g.c), LAMBDA c1 :                   \* find
        IF Failed(c1) THEN [c |-> Err(c1), res |-> None]
        ELSE Bind(Step(c1), LAMBDA c2 :                    \* the try_next loop
        Bind(IF namespace.some
             THEN PMatch(c2.pstats, uuid, namespace.val)
             ELSE {d \in c2.pstats : d.uuid = uuid}, LAMBDA docs :
            IF Failed(c2) \/ \E d \in docs : ~d.readable
            THEN [c |-> Err(c2), res |-> None]
            ELSE [c |-> c2, res |-> Some(FinalStats(docs))]))))

(***************************************************************************)
(* Inputs                                                                  *)
(***************************************************************************)
Keys == Players \cup {GlobalKey}
StatMaps == UNION {[S -> Deltas] : S \in SUBSET Stats}
Bundles ==
    [namespace : Namespaces,
     players : UNION {[P -> StatMaps] : P \in SUBSET Players},
     global : {None} \cup {Some(m) : m \in StatMaps}]
\* the iteration orders a HashMap over S can have
Orders(S) ==
    {o \in [1..Cardinality(S) -> S] : \A i, j \in DOMAIN o : i # j => o[i] # o[j]}
\* at most one round trip of a handler fails
FailSets == {{}} \cup {{i} : i \in 1..MaxOps}
\* the same for the handlers that make at most three round trips
ReadFails == {f \in FailSets : f \subseteq 1..3}

\* the failing round trips that the handler actually reached
Hits(c) == {i \in c.fails : i <= c.opc}
Hit(c) == Hits(c) # {}

\* deltas of a bundle for (key, stat): 0 when the bundle has none
BundleDelta(bundle, k, s) ==
    IF k = GlobalKey
    THEN IF bundle.global.some /\ s \in DOMAIN bundle.global.val
         THEN bundle.global.val[s] ELSE 0
    ELSE IF k \in DOMAIN bundle.players /\ s \in DOMAIN bundle.players[k]
         THEN bundle.players[k][s] ELSE 0

ZeroUploaded == [k \in Keys, n \in Namespaces, s \in Stats |-> 0]

(***************************************************************************)
(* Handlers                                                                *)
(***************************************************************************)
\* the store and the sink after a handler ran in context c
Commit(c) ==
    /\ profiles' = c.profiles
    /\ pstats' = c.pstats
    /\ gstats' = c.gstats
    /\ corrupt' = c.corrupt
    /\ reports' = c.reports
    /\ nextId' = c.nextId
    /\ alive' = (c.st # "panic")
    /\ steps' = steps + 1

Result(c, val) == IF c.st = "ok" THEN [tag |-> "Ok", val |-> val] ELSE [tag |-> c.st]

\* Handler<GetPlayerProfile>
GetPlayerProfile(uuid, fails) ==
    /\ alive /\ steps < MaxSteps
    /\ \E r \in {get_player_profile(Ctx(fails), uuid)} :
       /\ Commit(r.c)
       /\ last' = [op |-> "GetPlayerProfile", uuid |-> uuid, arg |-> None,
                   res |-> Result(r.c, r.res), log |-> r.c.log,
                   failed |-> Hits(r.c)]
       /\ clean' = (clean /\ ~Hit(r.c))
       /\ uploaded' = IF clean' THEN uploaded ELSE ZeroUploaded

\* Handler<UpdatePlayerProfile>
UpdatePlayerProfile(uuid, username, fails) ==
    /\ alive /\ steps < MaxSteps
    /\ \E r \in {update_player_profile(Ctx(fails), uuid, username)} :
       /\ Commit(r.c)
       /\ last' = [op |-> "UpdatePlayerProfile", uuid |-> uuid, arg |-> username,
                   res |-> Result(r.c, None), log |-> r.c.log,
                   failed |-> Hits(r.c)]
       /\ clean' = (clean /\ ~Hit(r.c))
       /\ uploaded' = IF clean' THEN uploaded ELSE ZeroUploaded

\* Handler<GetPlayerStats>
GetPlayerStats(uuid, namespace, fails) ==
    /\ alive /\ steps < MaxSteps
    /\ \E r \in {get_player_stats(Ctx(fails), uuid, namespace)} :
       /\ Commit(r.c)
       /\ last' = [op |-> "GetPlayerStats", uuid |-> uuid, arg |-> namespace,
                   res |-> Result(r.c, r.res), log |-> r.c.log,
                   failed |-> Hits(r.c)]
       /\ clean' = (clean /\ ~Hit(r.c))
       /\ uploaded' = IF clean' THEN uploaded ELSE ZeroUploaded

\* Handler<UploadStatsBundle>: the error is logged, the result is ()
UploadStatsBundle(bundle, order, statOrder, fails) ==
    /\ alive /\ steps < MaxSteps
    /\ \E c \in {upload_stats_bundle(Ctx(fails), bundle, order, statOrder)} :
       /\ Commit(c)
       /\ last' = [op |-> "UploadStatsBundle", uuid |-> "",
                   arg |-> [bundle |-> bundle, order |-> order],
                   res |-> [tag |-> c.st], log |-> c.log, failed |-> Hits(c),
                   reply |-> IF c.st = "panic" THEN "none" ELSE "()"]
       /\ clean' = (clean /\ ~Hit(c))
       /\ uploaded' = IF clean'
                      THEN [k \in Keys, n \in Namespaces, s \in Stats |->
                               uploaded[k, n, s] +
                               (IF n = bundle.namespace THEN BundleDelta(bundle, k, s) ELSE 0)]
                      ELSE ZeroUploaded

\* A minigame changes the type of a stored statistic: a live counter document
\* no longer deserializes into PlayerGameStats / GlobalGameStats.
SchemaDrift(id) ==
    /\ steps < MaxSteps
    /\ \E d \in pstats \cup gstats : d._id = id /\ d.readable
    /\ pstats' = {[d EXCEPT !.readable = (d._id # id /\ @)] : d \in pstats}
    /\ gstats' = {[d EXCEPT !.readable = (d._id # id /\ @)] : d \in gstats}
    /\ last' = [op |-> "SchemaDrift", uuid |-> "", arg |-> None,
                res |-> [tag |-> "Ok", val |-> None], log |-> << >>, failed |-> {}]
    /\ clean' = FALSE
    /\ uploaded' = ZeroUploaded
    /\ steps' = steps + 1
    /\ UNCHANGED <<profiles, corrupt, reports, nextId, alive>>

\* the empty database
EmptyStore ==
    [profiles |-> {}, pstats |-> {}, gstats |-> {}, corrupt |-> {},
     reports |-> << >>, nextId |-> 1, fails |-> {}, opc |-> 0, st |-> "ok",
     log |-> << >>]

\* the controller is constructed (connect) on the database c
InitOn(c) ==
    /\ profiles = c.profiles
    /\ pstats = c.pstats
    /\ gstats = c.gstats
    /\ corrupt = c.corrupt
    /\ reports = << >>
    /\ nextId = c.nextId
    /\ alive = TRUE
    /\ last = [op |-> "Init", uuid |-> "", arg |-> None,
               res |-> [tag |-> "Ok", val |-> None], log |-> << >>, failed |-> {}]
    /\ clean = TRUE
    /\ uploaded = ZeroUploaded
    /\ steps = 0

Init == InitOn(EmptyStore)

(***************************************************************************)
(* Repair: the controller is constructed on the database an earlier run     *)
(* left after uploading one bundle for player A and the network; bundles    *)
(* for A or for the network arrive, any one or two round trips fail, and    *)
(* minigames change the type of stored statistics.                          *)
(***************************************************************************)
StatMap1 == [s \in {"wins"} |-> 1]
SeedBundle ==
    [namespace |-> "lobby", players |-> [p \in {"A"} |-> StatMap1],
     global |-> Some(StatMap1)]
StatOrder1 == <<"wins", "kills">>
SeededStore == upload_stats_bundle(EmptyStore, SeedBundle, <<"A">>, StatOrder1)

RepairBundles ==
    {b \in Bundles :
        /\ DOMAIN b.players \subseteq {"A"}
        /\ (DOMAIN b.players = {}) # (b.global = None)
        /\ \A p \in DOMAIN b.players : b.players[p] \in {EmptyStats, StatMap1}
        /\ b.global \in {None, Some(EmptyStats), Some(StatMap1)}}

\* one or two round trips of a handler fail
FailPairs == FailSets \cup {{i, j} : i, j \in 1..MaxOps}

InitRepair == InitOn(SeededStore)

NextRepair ==
    \/ \E bundle \in RepairBundles, fails \in FailPairs :
          \E order \in Orders(DOMAIN bundle.players) :
             UploadStatsBundle(bundle, order, StatOrder1, fails)
    \/ \E id \in 1..nextId : SchemaDrift(id)

SpecRepair == InitRepair /\ [][NextRepair]_vars


(***************************************************************************)
(* All four handlers on an empty database, with bundles for one key at a    *)
(* time, any one round trip failing, and schema drift.                      *)
(***************************************************************************)
NamespaceFilters == {None} \cup {Some(n) : n \in Namespaces}

\* bundles for one player or for the network, with no statistic or wins +1
OneKeyBundles ==
    {b \in Bundles :
        /\ Cardinality(DOMAIN b.players) + (IF b.global.some THEN 1 ELSE 0) = 1
        /\ \A p \in DOMAIN b.players : b.players[p] \in {EmptyStats, StatMap1}
        /\ b.global \in {None, Some(EmptyStats), Some(StatMap1)}}

Next ==
    \/ \E uuid \in Players, fails \in ReadFails : GetPlayerProfile(uuid, fails)
    \/ \E uuid \in Players, username \in Names, fails \in ReadFails :
          UpdatePlayerProfile(uuid, username, fails)
    \/ \E uuid \in Players, namespace \in NamespaceFilters, fails \in ReadFails :
          GetPlayerStats(uuid, namespace, fails)
    \/ \E bundle \in OneKeyBundles, fails \in FailSets :
          \E order \in Orders(DOMAIN bundle.players) :
             UploadStatsBundle(bundle, order, StatOrder1, fails)
    \/ \E id \in 1..nextId : SchemaDrift(id)

Spec == Init /\ [][Next]_vars

(***************************************************************************)
(* Sums: bundles for one or two players with one or two statistics, with    *)
(* or without a global section, uploaded in every iteration order of the    *)
(* players and of the statistics; no round trip fails.                      *)
(***************************************************************************)
StatMap2 == [s \in Stats |-> IF s = "wins" THEN 2 ELSE 1]
SumPlayers ==
    {("A" :> StatMap1) @@ ("B" :> StatMap2), ("A" :> StatMap2), ("B" :> StatMap1)}
SumBundles ==
    {[namespace |-> "lobby", players |-> ps, global |-> g] :
        ps \in SumPlayers, g \in {None, Some(StatMap2)}}

NextSum ==
    \E bundle \in SumBundles :
        \E order \in Orders(DOMAIN bundle.players), statOrder \in Orders(Stats) :
            UploadStatsBundle(bundle, order, statOrder, {})

SpecSum == Init /\ [][NextSum]_vars

(***************************************************************************)
(* Partial failure: bundles for the two players, uploaded in both           *)
(* iteration orders, with at most one failing round trip.                   *)
(***************************************************************************)
MaxUploads == 2

TwoPlayerBundles ==
    {[namespace |-> "lobby", players |-> ps, global |-> None] :
        ps \in [Players -> {StatMap1, StatMap2}]}

NextBundle ==
    /\ steps < MaxUploads
    /\ \E bundle \in TwoPlayerBundles, fails \in FailSets :
          \E order \in Orders(DOMAIN bundle.players) :
              UploadStatsBundle(bundle, order, StatOrder1, fails)

SpecBundle == Init /\ [][NextBundle]_vars

(***************************************************************************)
(* Observations on the last handled message                                *)
(***************************************************************************)
\* live counter documents at (key, namespace) in the collections ps, gs
Live(ps, gs, k, n) == IF k = GlobalKey THEN GMatch(gs, n) ELSE PMatch(ps, k, n)
\* the source collection of key k
Source(ps, gs, k) == IF k = GlobalKey THEN gs ELSE ps

Events(l, e) == {i \in DOMAIN l.log : l.log[i].e = e}
\* ensure_*_stats_document returned Ok for (k, n) while handling l
Ensured(l, k, n) ==
    \E i \in Events(l, "ensured") : l.log[i].k = k /\ l.log[i].s = n

\* the counters that the increments issued for key k build on an empty document
RECURSIVE IncsFrom(_, _, _)
IncsFrom(log, k, i) ==
    IF i > Len(log) THEN EmptyStats
    ELSE LET rest == IncsFrom(log, k, i + 1) IN
         IF log[i].e = "inc" /\ log[i].k = k
         THEN Inc(rest, log[i].s, log[i].x)
         ELSE rest

(***************************************************************************)
(* C1: whenever the repair path copies an unreadable counter document into  *)
(* the quarantine collection, the quarantine record has a new _id,          *)
(* different from the _id the document had in its source collection, and    *)
(* the CorruptionReport carries that new _id.                               *)
(***************************************************************************)
C1_QuarantineNewIdentity ==
    \A i \in Events(last, "quarantine") :
        /\ last.log[i].id # last.log[i].x
        /\ \E d \in corrupt : d._id = last.log[i].id
        /\ \A j \in Events(last, "report") :
               last.log[j].k = last.log[i].k => last.log[j].id = last.log[i].id

(***************************************************************************)
(* C2: when ensure_*_stats_document returns Ok for a (key, namespace) whose *)
(* live document was unreadable, no document with the original _id remains  *)
(* in the source collection and exactly one live document exists at (key,   *)
(* namespace); it is readable and holds nothing but the increments the same *)
(* upload issued after the ensure (it was created with empty counters).     *)
(***************************************************************************)
C2_EnsureReplacesUnreadable ==
    [][\A k \in Keys, n \in Namespaces :
          (/\ last'.op = "UploadStatsBundle"
           /\ Ensured(last', k, n)
           /\ \E d \in Live(pstats, gstats, k, n) : ~d.readable)
          => /\ \A d \in Live(pstats, gstats, k, n) :
                   \A e \in Source(pstats', gstats', k) : e._id # d._id
             /\ Cardinality(Live(pstats', gstats', k, n)) = 1
             /\ \A e \in Live(pstats', gstats', k, n) :
                   e.readable /\ e.stats = IncsFrom(last'.log, k, 1)]_vars

\* an upload repaired an unreadable document and its ensure returned Ok
C2_Witness ==
    /\ last.op = "UploadStatsBundle"
    /\ \E i \in Events(last, "delete") :
          /\ Ensured(last, last.log[i].k, last.log[i].s)
          /\ \E d \in corrupt : d._id = last.log[i].id /\ ~d.readable
          /\ \E j \in Events(last, "inc") : last.log[j].k = last.log[i].k

(***************************************************************************)
(* C7: two uploads in a row that only ensure the document of the same       *)
(* (key, namespace), both returning Ok: exactly one live document exists    *)
(* after the first and after the second, and the second writes nothing to   *)
(* the counter and quarantine collections.                                  *)
(***************************************************************************)
EnsureOnly(k, n) ==
    IF k = GlobalKey
    THEN [namespace |-> n, players |-> << >>, global |-> Some(EmptyStats)]
    ELSE [namespace |-> n, players |-> [p \in {k} |-> EmptyStats], global |-> None]

\* l is a handled upload that did nothing but a successful ensure of (k, n)
EnsuredOnly(l, k, n) ==
    /\ l.op = "UploadStatsBundle"
    /\ l.res.tag = "ok"
    /\ l.arg.bundle = EnsureOnly(k, n)

C7_IdempotentEnsure ==
    [][\A k \in Keys, n \in Namespaces :
          (EnsuredOnly(last, k, n) /\ EnsuredOnly(last', k, n))
          => /\ Cardinality(Live(pstats, gstats, k, n)) = 1
             /\ Cardinality(Live(pstats', gstats', k, n)) = 1
             /\ pstats' = pstats /\ gstats' = gstats /\ corrupt' = corrupt]_vars

(***************************************************************************)
(* C4: update_player_profile called on an existing profile with a supplied  *)
(* name that differs from the stored one (an absent stored name included)   *)
(* writes the new name: a following lookup returns the supplied name.       *)
(***************************************************************************)
C4_ChangedNamePersisted ==
    [][(/\ last'.op = "UpdatePlayerProfile"
        /\ last'.res.tag = "Ok"
        /\ \E p \in profiles : p.uuid = last'.uuid /\ p.username # last'.arg)
       => FirstProfile(profiles', last'.uuid)
             = Some([uuid |-> last'.uuid, username |-> last'.arg])]_vars

(***************************************************************************)
(* C5: update_player_profile on an existing profile with the stored name,   *)
(* or with no name, issues no write to the profile collection and leaves    *)
(* the stored profile unchanged; when no profile exists and the call        *)
(* returns Ok, exactly one profile was inserted, with the supplied name.    *)
(***************************************************************************)
\* writes to the profile collection issued for uuid while handling l
ProfileWrites(l, uuid) ==
    {i \in DOMAIN l.log : l.log[i].e \in {"pinsert", "pupdate"} /\ l.log[i].k = uuid}
ProfilesOf(coll, uuid) == {p \in coll : p.uuid = uuid}
\* update_player_profile(uuid, NoName) ran for uuid while handling the upload l
Upserted(l, uuid) ==
    /\ l.op = "UploadStatsBundle"
    /\ \E i \in Events(l, "begin") : l.log[i].k = uuid

C5_UpsertWritesOnlyOnChange ==
    [][\A uuid \in Players :
          /\ (/\ last'.op = "UpdatePlayerProfile" /\ last'.uuid = uuid
              /\ \E p \in profiles : p.uuid = uuid /\ p.username = last'.arg)
             => (ProfileWrites(last', uuid) = {} /\ profiles' = profiles)
          /\ (Upserted(last', uuid) /\ ProfilesOf(profiles, uuid) # {})
             => (ProfileWrites(last', uuid) = {} /\ profiles' = profiles)
          /\ (/\ last'.op = "UpdatePlayerProfile" /\ last'.uuid = uuid
              /\ last'.res.tag = "Ok" /\ ProfilesOf(profiles, uuid) = {})
             => /\ Cardinality(ProfileWrites(last', uuid)) = 1
                /\ profiles' = profiles \cup {[uuid |-> uuid, username |-> last'.arg]}
          /\ (Ensured(last', uuid, last'.arg.bundle.namespace)
              /\ Upserted(last', uuid) /\ ProfilesOf(profiles, uuid) = {})
             => /\ Cardinality(ProfileWrites(last', uuid)) = 1
                /\ ProfilesOf(profiles', uuid) = {[uuid |-> uuid, username |-> NoName]}
      ]_vars

\* UpdatePlayerProfile was handled with the name the profile already had
C5_Witness ==
    /\ last.op = "UpdatePlayerProfile"
    /\ last.res.tag = "Ok"
    /\ last.log = << >>
    /\ [uuid |-> last.uuid, username |-> last.arg] \in profiles

(***************************************************************************)
(* C6: player-stats holds at most one document per (uuid, namespace) and    *)
(* global-stats at most one document per namespace.                         *)
(***************************************************************************)
C6_OneDocumentPerKey ==
    /\ \A uuid \in Players, n \in Namespaces : Cardinality(PMatch(pstats, uuid, n)) <= 1
    /\ \A n \in Namespaces : Cardinality(GMatch(gstats, n)) <= 1

\* a document was quarantined and a new one created in its place
C6_Witness ==
    \E d \in corrupt, k \in Keys :
        /\ Live(pstats, gstats, k, d.namespace) # {}
        /\ \A e \in Live(pstats, gstats, k, d.namespace) : e._id > d._id
        /\ (k = GlobalKey \/ (d.uuid = k /\ \E p \in Players \ {k} :
                                 Live(pstats, gstats, p, d.namespace) # {}))

(***************************************************************************)
(* C9: get_player_stats returns None exactly when no profile exists for     *)
(* the uuid; for a uuid with a profile and no counter document it returns   *)
(* a present, empty mapping.                                                *)
(***************************************************************************)
C9_MissingPlayer ==
    [][last'.op = "GetPlayerStats" =>
          /\ (last'.res.tag = "Ok" /\ last'.res.val = None)
                => ProfilesOf(profiles, last'.uuid) = {}
          /\ ProfilesOf(profiles, last'.uuid) = {}
                => \/ (last'.res.tag = "Ok" /\ last'.res.val = None)
                   \/ (last'.res.tag = "err" /\ last'.failed = {1})
          /\ (/\ ProfilesOf(profiles, last'.uuid) # {}
              /\ {d \in pstats : d.uuid = last'.uuid} = {}
              /\ last'.failed = {})
                => (last'.res.tag = "Ok" /\ last'.res.val = Some(EmptyStats))]_vars

\* None was returned for an unknown uuid while another player has statistics
C9_Witness ==
    /\ last.op = "GetPlayerStats"
    /\ last.res.tag = "Ok"
    /\ last.res.val = None
    /\ pstats # {}

(***************************************************************************)
(* C10: handling GetPlayerProfile or GetPlayerStats leaves the profile,     *)
(* player-stats, global-stats and quarantine collections unchanged and      *)
(* sends no BackendError, also for an unknown uuid and for an unreadable    *)
(* counter document.                                                        *)
(***************************************************************************)
C10_ReadOnly ==
    [][last'.op \in {"GetPlayerProfile", "GetPlayerStats"} =>
          /\ UNCHANGED <<profiles, pstats, gstats, corrupt, reports, nextId>>
          /\ last'.log = << >>]_vars

\* GetPlayerStats met an unreadable document of the requested player
C10_Witness ==
    /\ last.op = "GetPlayerStats"
    /\ last.res.tag = "err"
    /\ last.failed = {}
    /\ \E d \in pstats : d.uuid = last.uuid /\ ~d.readable

\* the value stored for statistic s of (key, namespace): 0 when nothing is stored
StoredValue(ps, gs, k, n, s) ==
    LET docs == Live(ps, gs, k, n) IN
    IF docs = {} THEN 0
    ELSE LET d == CHOOSE x \in docs : TRUE
         IN IF s \in DOMAIN d.stats THEN d.stats[s] ELSE 0

\* the upload handled as l stopped with an error while it processed player q
AbortedAt(l, q) ==
    /\ l.op = "UploadStatsBundle"
    /\ l.res.tag # "ok"
    /\ Events(l, "begin") # {}
    /\ \E i \in Events(l, "begin") :
          /\ l.log[i].k = q
          /\ \A j \in Events(l, "begin") : j <= i
\* p is processed before q in the iteration order of the upload l
Precedes(l, p, q) ==
    \E i, j \in DOMAIN l.arg.order :
        i < j /\ l.arg.order[i] = p /\ l.arg.order[j] = q
\* every increment of the bundle for p is in p's counter document after the step
AppliedAll(p) ==
    \A s \in DOMAIN last'.arg.bundle.players[p] :
        StoredValue(pstats', gstats', p, last'.arg.bundle.namespace, s)
          = (IF \E i \in Events(last', "insert") : last'.log[i].k = p
             THEN 0
             ELSE StoredValue(pstats, gstats, p, last'.arg.bundle.namespace, s))
            + last'.arg.bundle.players[p][s]
\* p's counter document is as it was before the step
AppliedNone(p) ==
    PMatch(pstats', p, last'.arg.bundle.namespace)
      = PMatch(pstats, p, last'.arg.bundle.namespace)

C8_CumulativeIncrements ==
    clean =>
        \A k \in Keys, n \in Namespaces, s \in Stats :
            StoredValue(pstats, gstats, k, n, s) = uploaded[k, n, s]

\* three bundles were uploaded, the last with B processed before A
C8_Witness ==
    /\ clean
    /\ steps >= 3
    /\ last.op = "UploadStatsBundle"
    /\ last.arg.order = <<"B", "A">>
    /\ uploaded["A", "lobby", "wins"] >= 3
    /\ uploaded["A", "lobby", "kills"] >= 1
    /\ uploaded[GlobalKey, "lobby", "wins"] >= 4

(***************************************************************************)
(* C11: in every state reachable through the four handlers, with store      *)
(* operations failing at any step, every document of player-stats has a     *)
(* uuid for which a profile exists in the profile collection.               *)
(***************************************************************************)
C11_ReferentialLinkage ==
    \A d \in pstats : ProfilesOf(profiles, d.uuid) # {}

\* the profile insert of one player failed while another player has a document
C11_Witness ==
    /\ last.op = "UploadStatsBundle"
    /\ last.res.tag = "err"
    /\ pstats # {}
    /\ \E i \in Events(last, "begin") :
          /\ ProfilesOf(profiles, last.log[i].k) = {}
          /\ \A d \in pstats : d.uuid # last.log[i].k

(***************************************************************************)
(* C12: after an UploadStatsBundle whose processing failed, by a store      *)
(* error or by a failed delivery of the BackendError during repair, the     *)
(* actor still handles the messages that follow.                            *)
(***************************************************************************)
C12_FailedBundleKeepsServing ==
    (last.op = "UploadStatsBundle" /\ last.res.tag # "ok") => alive

\* the documents d and q hold the same data (the _id apart)
SameContent(d, q) == [d EXCEPT !._id = NoId] = [q EXCEPT !._id = NoId]

(***************************************************************************)
(* C13: a counter document leaves player-stats or global-stats only if a    *)
(* document with the same content is in the quarantine collection, also     *)
(* when a store operation of the repair fails.                              *)
(***************************************************************************)
C13_QuarantineLosesNoData ==
    [][\A d \in pstats \cup gstats :
          (\A e \in pstats' \cup gstats' : e._id # d._id)
          => \E q \in corrupt' : SameContent(d, q)]_vars

\* the network's document, with its counters, was deleted and is in quarantine
C13_Witness ==
    \E i \in Events(last, "delete") :
        /\ last.log[i].k = GlobalKey
        /\ \A e \in pstats \cup gstats : e._id # last.log[i].id
        /\ \E q \in corrupt : q._id = last.log[i].id /\ q.stats # EmptyStats

(***************************************************************************)
(* C14: an unreadable counter document is replaced atomically: between two  *)
(* handled messages no document that the repair path has copied into the    *)
(* quarantine collection is still live in its source collection.            *)
(***************************************************************************)
C14_AtomicReplace ==
    \A i \in Events(last, "quarantine") :
        \A d \in Source(pstats, gstats, last.log[i].k) : d._id # last.log[i].x

(***************************************************************************)
(* C15: the repair steps run in this order: the copy into the quarantine    *)
(* collection, then the delete of the original, then the BackendError to    *)
(* the controller, and last the insert of the fresh empty document.         *)
(***************************************************************************)
C15_RepairOrder ==
    \A q \in Events(last, "quarantine") :
        LET k == last.log[q].k IN
        /\ \A d \in Events(last, "delete") :
              last.log[d].k = k => q < d
        /\ \A r \in Events(last, "report") :
              last.log[r].k = k =>
                 /\ q < r
                 /\ \E d \in Events(last, "delete") : last.log[d].k = k /\ d < r
        /\ \A n \in Events(last, "insert") :
              last.log[n].k = k =>
                 \A j \in Events(last, "quarantine") \cup Events(last, "delete")
                          \cup Events(last, "report") :
                    last.log[j].k = k => j < n

\* the bundle of the upload l names the key k and no other
OnlyKey(l, k) ==
    /\ l.op = "UploadStatsBundle"
    /\ IF k = GlobalKey
       THEN DOMAIN l.arg.bundle.players = {} /\ l.arg.bundle.global.some
       ELSE DOMAIN l.arg.bundle.players = {k} /\ ~l.arg.bundle.global.some
\* the round trips of find and try_next in the ensure of an upload for key k
\* alone: a player's come after the lookup of the existing profile
LookupOps(k) == IF k = GlobalKey THEN {1, 2} ELSE {2, 3}

(***************************************************************************)
(* C16: when find or try_next in ensure_*_stats_document fails with a       *)
(* transient store error while a valid document exists at (key, namespace), *)
(* the request fails, nothing is inserted into the quarantine collection,   *)
(* no BackendError is sent, and the document is left unchanged.             *)
(***************************************************************************)
C16_OnlySchemaFailureRepairs ==
    [][\A k \in Keys, n \in Namespaces :
          (/\ OnlyKey(last', k)
           /\ last'.arg.bundle.namespace = n
           /\ last'.failed \cap LookupOps(k) # {}
           /\ (k # GlobalKey => ProfilesOf(profiles, k) # {})
           /\ Live(pstats, gstats, k, n) # {}
           /\ \A d \in Live(pstats, gstats, k, n) : d.readable)
          => /\ last'.res.tag = "err"
             /\ Events(last', "quarantine") = {}
             /\ Events(last', "report") = {}
             /\ corrupt' = corrupt
             /\ reports' = reports
             /\ Live(pstats', gstats', k, n) = Live(pstats, gstats, k, n)]_vars

(***************************************************************************)
(* C17: within one upload, every increment issued against (key, namespace)  *)
(* comes after an ensure for that (key, namespace) that returned Ok in the  *)
(* same upload, and exactly one live document matches (key, namespace)      *)
(* when the increment is issued.                                            *)
(***************************************************************************)
\* nothing inserts or deletes a document of k after position j, so the
\* documents matching k at each later increment are those of the final store
C17_EnsureBeforeIncrement ==
    last.op = "UploadStatsBundle" =>
        \A i \in Events(last, "inc") :
            LET k == last.log[i].k
                n == last.arg.bundle.namespace
            IN \E j \in Events(last, "ensured") :
                  /\ j < i
                  /\ last.log[j].k = k
                  /\ last.log[j].s = n
                  /\ \A m \in Events(last, "insert") \cup Events(last, "delete") :
                        last.log[m].k = k => m < j
                  /\ Cardinality(Live(pstats, gstats, k, n)) = 1

\* increments of both players were issued, the second player's after a repair
C17_Witness ==
    /\ last.op = "UploadStatsBundle"
    /\ \E i, j \in Events(last, "inc") :
          /\ i < j
          /\ last.log[i].k # last.log[j].k
          /\ \E m \in Events(last, "delete") : last.log[m].k = last.log[j].k

\* the events of kind e that the upload l issued for key k
EventsFor(l, e, k) == {i \in Events(l, e) : l.log[i].k = k}

(***************************************************************************)
(* C18: when the typed lookup in ensure_*_stats_document fails and the raw  *)
(* find_one finds no document at (key, namespace), nothing is inserted into *)
(* the quarantine collection, nothing is deleted, no BackendError is sent,  *)
(* the repair returns Ok, and the ensure inserts a fresh empty document and *)
(* returns Ok.                                                              *)
(***************************************************************************)
C18_MissingDocumentTolerated ==
    [][\A k \in Keys :
          (/\ last'.op = "UploadStatsBundle"
           /\ EventsFor(last', "missing", k) # {}
           /\ Cardinality(last'.failed) = 1)
          => LET n == last'.arg.bundle.namespace IN
             /\ EventsFor(last', "quarantine", k) = {}
             /\ EventsFor(last', "report", k) = {}
             /\ EventsFor(last', "delete", k) = {}
             /\ corrupt' = corrupt
             /\ reports' = reports
             /\ \A d \in Source(pstats, gstats, k) :
                   \E e \in Source(pstats', gstats', k) : e._id = d._id
             /\ Ensured(last', k, n)
             /\ \E i \in EventsFor(last', "insert", k) :
                   \A e \in Live(pstats', gstats', k, n) :
                      /\ e._id = last'.log[i].id
                      /\ e.readable
                      /\ e.stats = IncsFrom(last'.log, k, 1)
             /\ Cardinality(Live(pstats', gstats', k, n)) = 1]_vars

\* a player's lookup failed with no document stored; the upload went on
C18_Witness ==
    /\ last.op = "UploadStatsBundle"
    /\ last.res.tag = "ok"
    /\ \E k \in Players :
          /\ EventsFor(last, "missing", k) # {}
          /\ EventsFor(last, "inc", k) # {}
          /\ \E d \in pstats : d.uuid = k /\ d.stats # EmptyStats

(***************************************************************************)
(* C19: when upload_stats_bundle fails at a store operation, every profile  *)
(* creation, document creation and increment that it had already issued     *)
(* keeps its effect in the store, and the handler returns no failure value. *)
(***************************************************************************)
C19_NoRollback ==
    [][(last'.op = "UploadStatsBundle" /\ last'.res.tag # "ok")
       => LET n == last'.arg.bundle.namespace IN
          /\ \A i \in Events(last', "pinsert") :
                ProfilesOf(profiles', last'.log[i].k)
                   = {[uuid |-> last'.log[i].k, username |-> last'.log[i].s]}
          /\ \A i \in Events(last', "insert") :
                \E d \in Source(pstats', gstats', last'.log[i].k) :
                   d._id = last'.log[i].id
          /\ \A k \in Keys, s \in Stats :
                EventsFor(last', "inc", k) # {} =>
                   StoredValue(pstats', gstats', k, n, s)
                     = (IF EventsFor(last', "insert", k) # {} THEN 0
                        ELSE StoredValue(pstats, gstats, k, n, s))
                       + (LET m == IncsFrom(last'.log, k, 1)
                          IN IF s \in DOMAIN m THEN m[s] ELSE 0)
          /\ last'.res.tag = "err" => last'.reply = "()"]_vars

\* the upload created a profile and a document, incremented, and then failed
C19_Witness ==
    /\ last.op = "UploadStatsBundle"
    /\ last.res.tag = "err"
    /\ last.reply = "()"
    /\ \E k \in Players :
          /\ EventsFor(last, "pinsert", k) # {}
          /\ EventsFor(last, "insert", k) # {}
          /\ EventsFor(last, "inc", k) # {}
          /\ StoredValue(pstats, gstats, k, "lobby", "wins") > 0

(***************************************************************************)
(* C20: if the repair of an unreadable document at (key, namespace) was     *)
(* interrupted after its copy was written to the quarantine collection, a   *)
(* later ensure for (key, namespace) during which every store operation     *)
(* succeeds returns Ok and leaves a fresh readable document there.          *)
(***************************************************************************)
C20_SlotNeverBlocked ==
    [][\A k \in Keys, n \in Namespaces :
          (/\ last'.op = "UploadStatsBundle"
           /\ last'.arg.bundle.namespace = n
           /\ EventsFor(last', "begin", k) # {}
           /\ last'.failed = {}
           /\ \E d \in Live(pstats, gstats, k, n) :
                 ~d.readable /\ \E q \in corrupt : SameContent(d, q))
          => /\ last'.res.tag = "ok"
             /\ Ensured(last', k, n)
             /\ Cardinality(Live(pstats', gstats', k, n)) = 1
             /\ \A e \in Live(pstats', gstats', k, n) :
                   e.readable /\ \A d \in Live(pstats, gstats, k, n) : e._id # d._id]_vars

====
